---- MODULE Spec2Model ----
(***************************************************************************)
(* A model of rich-text-editor.js: the paste sanitizer (sanitizeHtml /     *)
(* sanitizeNode), the UndoManager class, and one editor session as         *)
(* initEditor wires it (debounced change notification, blur, undo/redo,    *)
(* code-view toggle, toolbar and keyboard commands).                       *)
(*                                                                         *)
(* Five specifications share the variables:                                *)
(*   SpecSanitize  one call of sanitizeHtml on a bounded parsed document   *)
(*   SpecUndo      an UndoManager driven by push/undo/redo/reset           *)
(*   Spec          an editor session after initEditor                      *)
(*   SpecPage      the registry, the document's listeners and the dialogs  *)
(*                 of a page with several editors                          *)
(*   SpecTable     one submission of the table dialog                      *)
(***************************************************************************)
EXTENDS Integers, Sequences, FiniteSets, Bags, TLC

VARIABLES
    doc,          \* sanitizeHtml: children of doc.body after DOMParser (line 35)
    clean,        \* sanitizeHtml: children of doc.body when it is serialized (line 37)
    sanitized,    \* whether sanitizeHtml has run
    undo,         \* the UndoManager: [stack, index, maxSize] (lines 70-74, 252)
    prev,         \* SpecUndo: the UndoManager as it was before the last operation
    contentEl,    \* contentEl.innerHTML: the editable surface, serialized
    codeView,     \* codeView.value: the raw surface's text (Null: no raw surface)
    isCodeView,   \* the closure variable isCodeView (line 255)
    fullscreen,   \* container.classList contains 'rte-fullscreen'
    timer,        \* number of pending timeouts of the debounced notifyChange
    notified,     \* payloads passed to invokeMethodAsync('OnContentChanged') by the last handler
    lastOp,       \* the last operation or event handled: [name, arg]
    ret,          \* what undo(), redo() or getContent() returned in the last operation (Null: null)
    burst,        \* edits since the debounce timer was last idle, nothing else in between
    burstSent,    \* payloads the host was sent since the burst began
    burstMarkup,  \* the authoritative markup right after the last edit
    instances,    \* the module's Map instances (line 4): element id -> instance
    closures,     \* the initEditor closures whose elements are in the page, oldest first
    listeners,    \* the selectionchange and keydown listeners initEditor put on document
    classes,      \* container.classList of each editor element
    overlays,     \* the .rte-dialog-overlay children of document.body, a bag
    detached,     \* the overlays out of the document whose listener or observer stands, a bag
    invoked,      \* the dialog callbacks the last handler called
    fields,       \* SpecTable: the table dialog's inputs and the session's opts
    resolved,     \* SpecTable: the (rows, cols) the table dialog passed its callback
    before        \* contentEl.innerHTML before the last handler, an undo command's (else Null)

vars == <<doc, clean, sanitized, undo, prev, contentEl, codeView, isCodeView,
          fullscreen, timer, notified, lastOp, ret, burst, burstSent, burstMarkup,
          instances, closures, listeners, classes, overlays, detached, invoked,
          fields, resolved, before>>

sanVars == <<doc, clean, sanitized>>
sessVars == <<contentEl, codeView, isCodeView, fullscreen, timer, notified,
              burst, burstSent, burstMarkup, before>>
domVars == <<closures, listeners, classes, overlays, detached, invoked>>
tableVars == <<fields, resolved>>
pageVars == <<instances, domVars, tableVars>>

Null == "null"

Op(name, arg) == [name |-> name, arg |-> arg]

----------------------------------------------------------------------------
(* Bounds *)

MaxKids == 2          \* children per node of the parsed document
MaxSize == 3          \* SpecUndo: largest maxSize of an UndoManager
MaxUndoStackSize == 2 \* Spec: largest opts.undoStackSize of a session
MaxBurst == 2         \* the burst counter saturates here
MaxClosures == 2      \* SpecPage: initEditor closures alive at once
MaxOverlays == 2      \* SpecPage: dialogs in the document at once

----------------------------------------------------------------------------
(* Sanitizer: lines 16-65 *)

ALLOWED_TAGS ==
    {"P", "BR", "DIV", "H1", "H2", "H3", "H4", "H5", "H6", "UL", "OL", "LI",
     "STRONG", "B", "EM", "I", "U", "S", "A", "BLOCKQUOTE",
     "TABLE", "THEAD", "TBODY", "TR", "TH", "TD",
     "IMG", "HR", "SUP", "SUB", "CODE", "PRE", "SPAN"}

\* Tags of the model's documents: one allowed, one not; and the text node.
DocTags == {"A", "FONT"}
TextNode == "#text"

ALLOWED_ATTRS == {"href", "target", "rel", "src", "alt", "colspan", "rowspan"}

\* A URL is a sequence of tokens: blanks, then a leading token (a scheme with
\* its colon, "/" or "#"), then the rest.
JsUrl == <<"javascript:", "alert(1)">>
HttpsUrl == <<"https:", "//example.com">>
PaddedUrl == <<" ", "HTTPS:", "//example.com", " ">>

\* String.prototype.toLowerCase on a leading token (the /i flag of the pattern)
toLowerCase(t) ==
    CASE t = "HTTPS:" -> "https:"
      [] t = "JavaScript:" -> "javascript:"
      [] OTHER -> t

RECURSIVE trimStart(_)
trimStart(v) == IF v # <<>> /\ Head(v) = " " THEN trimStart(Tail(v)) ELSE v

RECURSIVE trimEnd(_)
trimEnd(v) ==
    IF v # <<>> /\ v[Len(v)] = " " THEN trimEnd(SubSeq(v, 1, Len(v) - 1)) ELSE v

trim(v) == trimEnd(trimStart(v))

\* /^(?:https?:|mailto:|tel:|\/|#)/i
SAFE_URL_PATTERN(v) ==
    v # <<>> /\ toLowerCase(Head(v)) \in {"http:", "https:", "mailto:", "tel:", "/", "#"}

isSafeUrl(value) ==
    LET v == trim(value) IN v = <<>> \/ SAFE_URL_PATTERN(v)

\* A node: [tag, attrs, kids]; attrs is a set of <<name, value>>.
Text == [tag |-> TextNode, attrs |-> {}, kids |-> <<>>]
Element(tag, attrs, kids) == [tag |-> tag, attrs |-> attrs, kids |-> kids]

AttrChoices ==
    { {}, {<<"href", JsUrl>>}, {<<"href", HttpsUrl>>, <<"onclick", <<"alert(1)">>>>},
      {<<"src", PaddedUrl>>} }

SeqsUpTo(S, n) == UNION {[1..k -> S] : k \in 0..n}

\* Nodes without children, and nodes whose children have none.
Leaves == {Text} \cup {Element(t, a, <<>>) : t \in DocTags, a \in AttrChoices}
Nodes ==
    {Text} \cup {Element(t, a, k) : t \in DocTags, a \in AttrChoices,
                                     k \in SeqsUpTo(Leaves, MaxKids)}
Docs == SeqsUpTo(Nodes, MaxKids)

\* lines 53-60: strip disallowed attributes and unsafe href/src
stripAttrs(child) ==
    [child EXCEPT !.attrs =
        {a \in child.attrs :
            /\ a[1] \in ALLOWED_ATTRS
            /\ ~(a[1] \in {"href", "src"} /\ ~isSafeUrl(a[2]))}]

\* lines 40-65.  The for-of loop walks node.childNodes, a live list, by index:
\* the iterator reads the list's length and its i-th item anew at every step.
\* Unwrapping a disallowed child inserts its children before it (line 48), so
\* the child moves from index i to i + (number of its children), and it stays
\* in the list, emptied, until line 64 removes it.  An entry of the list is
\* [n |-> node, rm |-> whether the node is in toRemove].
RECURSIVE sanitizeNode(_)
RECURSIVE sanitizeLoop(_, _)
sanitizeLoop(list, i) ==
    IF i > Len(list) THEN list
    ELSE LET child == list[i].n IN
         IF child.tag = TextNode THEN sanitizeLoop(list, i + 1)
         ELSE IF child.tag \notin ALLOWED_TAGS
              THEN sanitizeLoop(
                      SubSeq(list, 1, i - 1)
                      \o [j \in 1..Len(child.kids) |-> [n |-> child.kids[j], rm |-> FALSE]]
                      \o <<[n |-> [child EXCEPT !.kids = <<>>], rm |-> TRUE]>>
                      \o SubSeq(list, i + 1, Len(list)),
                      i + 1)
              ELSE sanitizeLoop(
                      [list EXCEPT ![i] = [n |-> sanitizeNode(stripAttrs(child)), rm |-> FALSE]],
                      i + 1)

NotRemoved(e) == ~e.rm

sanitizeNode(node) ==
    LET walked == sanitizeLoop([j \in 1..Len(node.kids) |-> [n |-> node.kids[j], rm |-> FALSE]], 1)
        kept == SelectSeq(walked, NotRemoved)
    IN [node EXCEPT !.kids = [j \in 1..Len(kept) |-> kept[j].n]]

\* lines 34-38, on the parsed body's children
sanitizeHtml(html) == sanitizeNode(Element("BODY", {}, html)).kids

----------------------------------------------------------------------------
(* UndoManager: lines 69-103 *)

Snapshots == {"A", "B", "C", "D"}

\* constructor (lines 70-74)
UndoManager(maxSize) == [stack |-> <<>>, index |-> -1, maxSize |-> maxSize]

\* this.stack[i] for a 0-based i
At(um, i) == um.stack[i + 1]

\* Faulty variants of push: the redo entries kept; no deduplication; no eviction.
UndoManager_pushKeepsRedo(um, html) ==
    IF um.index >= 0 /\ At(um, um.index) = html THEN um
    ELSE LET pushed == Append(um.stack, html)
             shifted == IF Len(pushed) > um.maxSize THEN Tail(pushed) ELSE pushed
         IN [um EXCEPT !.stack = shifted, !.index = Len(shifted) - 1]

UndoManager_pushNoDedup(um, html) ==
    LET pushed == Append(SubSeq(um.stack, 1, um.index + 1), html)
        shifted == IF Len(pushed) > um.maxSize THEN Tail(pushed) ELSE pushed
    IN [um EXCEPT !.stack = shifted, !.index = Len(shifted) - 1]

UndoManager_pushNoEvict(um, html) ==
    IF um.index >= 0 /\ At(um, um.index) = html THEN um
    ELSE LET pushed == Append(SubSeq(um.stack, 1, um.index + 1), html)
         IN [um EXCEPT !.stack = pushed, !.index = Len(pushed) - 1]

\* A faulty push: the eviction forgets the cursor, which stays one past the
\* last index.
UndoManager_pushStaleCursor(um, html) ==
    IF um.index >= 0 /\ At(um, um.index) = html THEN um
    ELSE LET pushed == Append(SubSeq(um.stack, 1, um.index + 1), html)
             shifted == IF Len(pushed) > um.maxSize THEN Tail(pushed) ELSE pushed
         IN [um EXCEPT !.stack = shifted, !.index = Len(pushed) - 1]

\* push (lines 76-84)
UndoManager_push(um, html) ==
    IF um.index >= 0 /\ At(um, um.index) = html THEN um
    ELSE LET truncated == SubSeq(um.stack, 1, um.index + 1)
             pushed == Append(truncated, html)
             shifted == IF Len(pushed) > um.maxSize THEN Tail(pushed) ELSE pushed
         IN [um EXCEPT !.stack = shifted, !.index = Len(shifted) - 1]

\* A faulty undo: this.stack[this.index--], the snapshot left behind is returned.
UndoManager_undoPostDecrement(um) ==
    IF um.index > 0
    THEN [um |-> [um EXCEPT !.index = um.index - 1], ret |-> At(um, um.index)]
    ELSE [um |-> um, ret |-> Null]

\* undo (lines 86-89): the manager afterwards and the value returned
UndoManager_undo(um) ==
    IF um.index > 0
    THEN [um |-> [um EXCEPT !.index = um.index - 1], ret |-> At(um, um.index - 1)]
    ELSE [um |-> um, ret |-> Null]

\* redo (lines 91-94)
UndoManager_redo(um) ==
    IF um.index < Len(um.stack) - 1
    THEN [um |-> [um EXCEPT !.index = um.index + 1], ret |-> At(um, um.index + 1)]
    ELSE [um |-> um, ret |-> Null]

\* lines 96-97
canUndo(um) == um.index > 0
canRedo(um) == um.index < Len(um.stack) - 1

\* reset (lines 99-102)
UndoManager_reset(um, html) == [um EXCEPT !.stack = <<html>>, !.index = 0]

----------------------------------------------------------------------------
(* The instance registry: the module's Map instances, line 4 *)

\* ids of the editor elements of the page
ElementIds == {"editor1", "editor2"}

\* instances.get(id) when the Map has no entry for id (lines 506, 513, 519)
Unregistered == 0

----------------------------------------------------------------------------
(* Values of the variables a specification does not use *)

DomIdle ==
    /\ closures = <<>> /\ listeners = {}
    /\ classes = [id \in ElementIds |-> {}]
    /\ overlays = EmptyBag /\ detached = EmptyBag /\ invoked = <<>>
TableIdle == fields = <<>> /\ resolved = <<>>
PageIdle ==
    /\ instances = [id \in ElementIds |-> Unregistered]
    /\ DomIdle /\ TableIdle

NoUndo == UndoManager(1)
NoOp == Op("none", Null)

SanitizeIdle == doc = <<>> /\ clean = <<>> /\ sanitized = FALSE
UndoIdle == undo = NoUndo /\ prev = NoUndo
SessionIdle ==
    /\ contentEl = Null /\ codeView = Null /\ isCodeView = FALSE /\ fullscreen = FALSE
    /\ timer = 0 /\ notified = <<>>
    /\ burst = 0 /\ burstSent = <<>> /\ burstMarkup = Null
    /\ before = Null

----------------------------------------------------------------------------
(* Editor session: initEditor, lines 234-503 *)

\* The element id of the session Spec follows
elementId == "editor1"

\* Markup strings.  "<p>a" is markup the HTML parser repairs: a surface that is
\* assigned it serializes as "<p>a</p>".
Html == {"<p>a</p>", "<p>b</p>", "<p>a"}

\* element.innerHTML read after element.innerHTML = markup (lines 463-465, 336):
\* the serialization of the tree the parser builds from markup
InnerHTML(markup) == IF markup = "<p>a" THEN "<p>a</p>" ELSE markup

\* What contentEl.innerHTML can read as
Serialized == {InnerHTML(h) : h \in Html}

Min(a, b) == IF a < b THEN a ELSE b

\* document.execCommand names the toolbar passes through (lines 372-381)
ExecCommands ==
    {"bold", "italic", "underline", "justifyLeft", "justifyCenter", "justifyRight",
     "insertUnorderedList", "insertOrderedList", "indent", "outdent"}

\* data-command values the toolbar click handler switches on (lines 365-398)
ToolbarCommands == {"undo", "redo", "link", "table", "code", "fullscreen"} \cup ExecCommands

\* Ctrl/Cmd combinations the keydown handler switches on (lines 300-330);
\* "Z" is Ctrl/Cmd+Shift+Z
Keys == {"z", "y", "b", "i", "u", "Z"}

\* A faulty getContent: the editable surface is read in either view.
getContentIgnoresView == contentEl

\* getContent's value (line 515), which is also notifyChange's html (line 258)
getContent == IF isCodeView THEN codeView ELSE contentEl

\* The exported getContent(elementId) (lines 512-516)
getContent_export == IF instances[elementId] = Unregistered THEN "" ELSE getContent

\* A faulty debounce: the pending timeout is not cleared.
debounceNoClear(pending) == pending + 1

\* debounce (lines 8-14): the number of pending timeouts after a call of the
\* debounced function: clearTimeout(timer), then one setTimeout
debounce(pending) == 1

\* Bookkeeping of bursts of edits: an edit made while the timer of the edit
\* before it is pending continues the burst, any other edit starts one.
BurstEdit ==
    LET continues == timer > 0 /\ burst > 0 IN
    /\ burst' = IF continues THEN Min(burst + 1, MaxBurst) ELSE 1
    /\ burstSent' = IF continues THEN burstSent ELSE <<>>
    /\ burstMarkup' = IF isCodeView' THEN codeView' ELSE contentEl'
BurstBroken == burst' = 0 /\ burstSent' = <<>> /\ burstMarkup' = Null
BurstKept == UNCHANGED <<burst, burstSent, burstMarkup>>

\* A call of the debounced notifyChange (lines 257, 263): the timer is re-armed,
\* nothing is sent yet
notifyChange ==
    /\ timer' = debounce(timer)
    /\ notified' = <<>>
    /\ BurstEdit

\* document.execCommand on the editable surface: the surface may change to any
\* markup, or stay as it is
execCommand == contentEl' \in Serialized

\* A faulty doUndo: the host is notified whatever undo() returned.
doUndoAlwaysNotifies ==
    LET r == UndoManager_undo(undo) IN
    /\ undo' = r.um /\ ret' = r.ret
    /\ contentEl' = IF r.ret # Null THEN InnerHTML(r.ret) ELSE contentEl
    /\ notified' = <<r.ret>>

\* doUndo (lines 333-339)
doUndo ==
    LET r == UndoManager_undo(undo) IN
    /\ undo' = r.um /\ ret' = r.ret
    /\ IF r.ret # Null
       THEN contentEl' = InnerHTML(r.ret) /\ notified' = <<r.ret>>
       ELSE contentEl' = contentEl /\ notified' = <<>>

\* doRedo (lines 341-347)
doRedo ==
    LET r == UndoManager_redo(undo) IN
    /\ undo' = r.um /\ ret' = r.ret
    /\ IF r.ret # Null
       THEN contentEl' = InnerHTML(r.ret) /\ notified' = <<r.ret>>
       ELSE contentEl' = contentEl /\ notified' = <<>>

\* toggleCodeView (lines 456-472)
toggleCodeView ==
    IF codeView = Null
    THEN notified' = <<>> /\ UNCHANGED <<isCodeView, codeView, contentEl, undo>>
    ELSE /\ isCodeView' = ~isCodeView
         /\ IF isCodeView'
            THEN /\ codeView' = contentEl
                 /\ UNCHANGED <<contentEl, undo>>
            ELSE /\ contentEl' = InnerHTML(codeView)
                 /\ undo' = UndoManager_push(undo, contentEl')
                 /\ UNCHANGED codeView
         /\ notified' = <<IF isCodeView' THEN codeView' ELSE contentEl'>>

\* The undo and the redo commands, of the toolbar and of the keyboard
IsUndoCommand(op) == op \in {Op("toolbar", "undo"), Op("keydown", "z")}
IsRedoCommand(op) == op \in {Op("toolbar", "redo"), Op("keydown", "y"), Op("keydown", "Z")}

\* Bookkeeping: the editable surface as an undo command found it
RecordBefore == before' = IF IsUndoCommand(lastOp') THEN contentEl ELSE Null

\* toggleFullscreen (lines 479-483)
toggleFullscreen == fullscreen' = ~fullscreen

\* The state initEditor leaves (lines 234-263, 494): the editable surface holds
\* what the page rendered, the raw surface (when the page has one) any text;
\* the undo history holds the first snapshot.
Init ==
    /\ contentEl \in Serialized
    /\ codeView \in Html \cup {Null}
    /\ isCodeView = FALSE /\ fullscreen = FALSE
    /\ timer = 0 /\ notified = <<>>
    /\ \E undoStackSize \in 1..MaxUndoStackSize :
          undo = UndoManager_push(UndoManager(undoStackSize), contentEl)
    /\ prev = NoUndo
    /\ lastOp = Op("initEditor", Null) /\ ret = Null
    /\ burst = 0 /\ burstSent = <<>> /\ burstMarkup = Null
    /\ before = Null
    /\ instances = [id \in ElementIds |-> IF id = elementId THEN 1 ELSE Unregistered]
    /\ DomIdle /\ TableIdle
    /\ SanitizeIdle

\* The editable surface is shown, and takes events, in WYSIWYG; the raw
\* surface in RawView.  destroyEditor is the component's teardown: the
\* elements leave the page with it and take no event afterwards.
mounted == instances[elementId] # Unregistered

\* 'input' on contentEl (line 267): the user typed
input ==
    \E html \in Serialized :
        /\ mounted /\ ~isCodeView
        /\ contentEl' = html
        /\ UNCHANGED <<codeView, isCodeView, fullscreen, undo, prev>>
        /\ notifyChange
        /\ lastOp' = Op("input", html) /\ ret' = Null
        /\ RecordBefore
        /\ UNCHANGED sanVars /\ UNCHANGED pageVars

\* 'input' on codeView (lines 474-476): the user typed in the raw surface
codeInput ==
    \E text \in Html :
        /\ mounted /\ codeView # Null /\ isCodeView
        /\ codeView' = text
        /\ UNCHANGED <<contentEl, isCodeView, fullscreen, undo, prev>>
        /\ notifyChange
        /\ lastOp' = Op("codeInput", text) /\ ret' = Null
        /\ RecordBefore
        /\ UNCHANGED sanVars /\ UNCHANGED pageVars

\* A faulty blur handler: it goes through the debounced notifyChange.
blurDebounced ==
    /\ mounted /\ ~isCodeView
    /\ timer' = debounce(timer)
    /\ notified' = <<>>
    /\ BurstBroken
    /\ lastOp' = Op("blur", Null) /\ ret' = Null
    /\ UNCHANGED <<contentEl, codeView, isCodeView, fullscreen, undo, prev>>
    /\ RecordBefore
    /\ UNCHANGED sanVars /\ UNCHANGED pageVars

\* 'blur' on contentEl (lines 269-274)
blur ==
    /\ mounted /\ ~isCodeView
    /\ notified' = <<contentEl>>
    /\ BurstBroken
    /\ lastOp' = Op("blur", Null) /\ ret' = Null
    /\ UNCHANGED <<contentEl, codeView, isCodeView, fullscreen, timer, undo, prev>>
    /\ RecordBefore
    /\ UNCHANGED sanVars /\ UNCHANGED pageVars

\* 'paste' on contentEl (lines 285-296): insertHTML of the sanitized clipboard
\* markup, or insertText, or nothing; then notifyChange
paste ==
    /\ mounted /\ ~isCodeView
    /\ execCommand
    /\ UNCHANGED <<codeView, isCodeView, fullscreen, undo, prev>>
    /\ notifyChange
    /\ lastOp' = Op("paste", Null) /\ ret' = Null
    /\ RecordBefore
    /\ UNCHANGED sanVars /\ UNCHANGED pageVars

\* 'keydown' on contentEl (lines 299-331)
keydown ==
    \E key \in Keys :
        /\ mounted /\ ~isCodeView
        /\ lastOp' = Op("keydown", key)
        /\ UNCHANGED <<codeView, isCodeView, fullscreen, prev>>
        /\ CASE key = "z" ->
                  /\ doUndo /\ BurstBroken /\ UNCHANGED timer
             [] key \in {"y", "Z"} ->
                  /\ doRedo /\ BurstBroken /\ UNCHANGED timer
             [] OTHER ->
                  /\ execCommand /\ notifyChange
                  /\ ret' = Null /\ UNCHANGED undo
        /\ RecordBefore
        /\ UNCHANGED sanVars /\ UNCHANGED pageVars

\* 'click' on the toolbar (lines 359-401).  link and table open a dialog and
\* change nothing of the session until the dialog is submitted.  The ten
\* commands of lines 372-381 share one statement and are recorded as
\* "execCommand".
toolbarClick ==
    \E cmd \in ToolbarCommands :
        /\ mounted
        /\ lastOp' = Op("toolbar", IF cmd \in ExecCommands THEN "execCommand" ELSE cmd)
        /\ CASE cmd = "undo" ->
                  /\ doUndo /\ BurstBroken
                  /\ UNCHANGED <<codeView, isCodeView, fullscreen, timer>>
             [] cmd = "redo" ->
                  /\ doRedo /\ BurstBroken
                  /\ UNCHANGED <<codeView, isCodeView, fullscreen, timer>>
             [] cmd \in ExecCommands ->
                  /\ execCommand
                  /\ UNCHANGED <<codeView, isCodeView, fullscreen, undo>>
                  /\ notifyChange
                  /\ ret' = Null
             [] cmd = "code" ->
                  /\ toggleCodeView /\ BurstBroken
                  /\ ret' = Null
                  /\ UNCHANGED <<fullscreen, timer>>
             [] cmd = "fullscreen" ->
                  /\ toggleFullscreen /\ BurstKept
                  /\ notified' = <<>> /\ ret' = Null
                  /\ UNCHANGED <<contentEl, codeView, isCodeView, timer, undo>>
             [] OTHER ->
                  /\ BurstKept
                  /\ notified' = <<>> /\ ret' = Null
                  /\ UNCHANGED <<contentEl, codeView, isCodeView, fullscreen, timer, undo>>
        /\ UNCHANGED prev
        /\ RecordBefore
        /\ UNCHANGED sanVars /\ UNCHANGED pageVars

\* 'change' on the format select (lines 404-412)
formatChange ==
    /\ mounted
    /\ execCommand
    /\ UNCHANGED <<codeView, isCodeView, fullscreen, undo, prev>>
    /\ notifyChange
    /\ lastOp' = Op("formatBlock", Null) /\ ret' = Null
    /\ RecordBefore
    /\ UNCHANGED sanVars /\ UNCHANGED pageVars

\* 'keydown' on document, Escape (lines 486-491)
onKeydownGlobal ==
    /\ mounted /\ fullscreen
    /\ toggleFullscreen
    /\ BurstKept
    /\ notified' = <<>>
    /\ lastOp' = Op("escape", Null) /\ ret' = Null
    /\ UNCHANGED <<contentEl, codeView, isCodeView, timer, undo, prev>>
    /\ RecordBefore
    /\ UNCHANGED sanVars /\ UNCHANGED pageVars

\* A faulty timeout: the host is notified, the snapshot is not pushed.
timeoutNoPush ==
    /\ timer > 0
    /\ timer' = timer - 1
    /\ notified' = <<getContent>>
    /\ burstSent' = IF burst > 0 /\ Len(burstSent) < 2
                    THEN Append(burstSent, getContent) ELSE burstSent
    /\ UNCHANGED <<burst, burstMarkup>>
    /\ lastOp' = Op("timeout", Null) /\ ret' = Null
    /\ UNCHANGED <<contentEl, codeView, isCodeView, fullscreen, undo, prev>>
    /\ RecordBefore
    /\ UNCHANGED sanVars /\ UNCHANGED pageVars

\* The timeout of the debounced notifyChange fires (lines 12, 257-263)
timeout ==
    /\ timer > 0
    /\ timer' = timer - 1
    /\ undo' = UndoManager_push(undo, getContent)
    /\ notified' = <<getContent>>
    /\ burstSent' = IF burst > 0 /\ Len(burstSent) < 2
                    THEN Append(burstSent, getContent) ELSE burstSent
    /\ UNCHANGED <<burst, burstMarkup>>
    /\ lastOp' = Op("timeout", Null) /\ ret' = Null
    /\ UNCHANGED <<contentEl, codeView, isCodeView, fullscreen, prev>>
    /\ RecordBefore
    /\ UNCHANGED sanVars /\ UNCHANGED pageVars

\* The callback handleLink gives showLinkDialog (lines 421-434), called when
\* the dialog is submitted with a URL; the dialog itself is followed in
\* SpecPage.  An unsafe URL is dropped, a safe one inserted.
linkCallback ==
    \E url \in {JsUrl, HttpsUrl} :
        /\ mounted
        /\ lastOp' = Op("linkCallback", url) /\ ret' = Null
        /\ UNCHANGED <<codeView, isCodeView, fullscreen, undo, prev>>
        /\ IF isSafeUrl(url)
           THEN execCommand /\ notifyChange
           ELSE /\ BurstKept /\ notified' = <<>>
                /\ UNCHANGED <<contentEl, timer>>
        /\ RecordBefore
        /\ UNCHANGED sanVars /\ UNCHANGED pageVars

\* The callback handleTable gives showTableDialog (lines 441-452)
tableCallback ==
    /\ mounted
    /\ execCommand
    /\ UNCHANGED <<codeView, isCodeView, fullscreen, undo, prev>>
    /\ notifyChange
    /\ lastOp' = Op("tableCallback", Null) /\ ret' = Null
    /\ RecordBefore
    /\ UNCHANGED sanVars /\ UNCHANGED pageVars

\* A faulty setContent: the markup is also pushed to the undo history.
setContentPushes ==
    \E content \in Html :
        /\ IF instances[elementId] = Unregistered
           THEN UNCHANGED <<contentEl, codeView, undo>>
           ELSE /\ contentEl' = InnerHTML(content)
                /\ codeView' = IF codeView # Null THEN content ELSE codeView
                /\ undo' = UndoManager_push(undo, contentEl')
        /\ notified' = <<>>
        /\ BurstBroken
        /\ lastOp' = Op("setContent", content) /\ ret' = Null
        /\ UNCHANGED <<isCodeView, fullscreen, timer, prev>>
        /\ RecordBefore
        /\ UNCHANGED sanVars /\ UNCHANGED pageVars

\* The host calls setContent(elementId, content) with a markup string
\* (lines 505-510); content || '' is the string itself
setContent ==
    \E content \in Html :
        /\ IF instances[elementId] = Unregistered
           THEN UNCHANGED <<contentEl, codeView>>
           ELSE /\ contentEl' = InnerHTML(content)
                /\ codeView' = IF codeView # Null THEN content ELSE codeView
        /\ notified' = <<>>
        /\ BurstBroken
        /\ lastOp' = Op("setContent", content) /\ ret' = Null
        /\ UNCHANGED <<isCodeView, fullscreen, timer, undo, prev>>
        /\ RecordBefore
        /\ UNCHANGED sanVars /\ UNCHANGED pageVars

\* The host calls getContent(elementId) (lines 512-516); ret is what it returns
getContentCall ==
    /\ ret' = getContent_export
    /\ notified' = <<>>
    /\ BurstKept
    /\ lastOp' = Op("getContent", Null)
    /\ UNCHANGED <<contentEl, codeView, isCodeView, fullscreen, timer, undo, prev>>
    /\ RecordBefore
    /\ UNCHANGED sanVars /\ UNCHANGED pageVars

\* The host calls destroyEditor(elementId) (lines 518-532).  The timer of the
\* debounced notifyChange and the closure's isCodeView are not touched.
destroyEditor ==
    /\ IF instances[elementId] = Unregistered
       THEN UNCHANGED <<fullscreen, instances>>
       ELSE /\ fullscreen' = FALSE
            /\ instances' = [instances EXCEPT ![elementId] = Unregistered]
    /\ notified' = <<>>
    /\ BurstBroken
    /\ lastOp' = Op("destroyEditor", Null) /\ ret' = Null
    /\ UNCHANGED <<contentEl, codeView, isCodeView, timer, undo, prev>>
    /\ RecordBefore
    /\ UNCHANGED sanVars /\ UNCHANGED <<domVars, tableVars>>

Next ==
    \/ input \/ codeInput \/ blur \/ paste \/ keydown \/ toolbarClick
    \/ formatChange \/ onKeydownGlobal \/ timeout
    \/ linkCallback \/ tableCallback
    \/ setContent \/ getContentCall \/ destroyEditor

Spec == Init /\ [][Next]_vars

----------------------------------------------------------------------------
(* SpecSanitize: one call of sanitizeHtml (the paste handler's line 290) *)

InitSanitize ==
    /\ doc \in Docs /\ clean = <<>> /\ sanitized = FALSE
    /\ UndoIdle /\ SessionIdle
    /\ lastOp = NoOp /\ ret = Null
    /\ PageIdle

Sanitize ==
    /\ ~sanitized
    /\ clean' = sanitizeHtml(doc)
    /\ sanitized' = TRUE
    /\ lastOp' = Op("sanitizeHtml", Null)
    /\ UNCHANGED <<doc, undo, prev, ret>>
    /\ UNCHANGED sessVars /\ UNCHANGED pageVars

NextSanitize == Sanitize

SpecSanitize == InitSanitize /\ [][NextSanitize]_vars

\* What the sanitizer promises of a node and of everything below it
RECURSIVE IsClean(_)
IsClean(node) ==
    \/ node.tag = TextNode
    \/ /\ node.tag \in ALLOWED_TAGS
       /\ \A a \in node.attrs :
             /\ a[1] \in ALLOWED_ATTRS
             /\ (a[1] \in {"href", "src"} => isSafeUrl(a[2]))
       /\ \A j \in 1..Len(node.kids) : IsClean(node.kids[j])

\* C1: the output of sanitizeHtml holds no element outside the allowed tags, no
\* attribute outside the allowed attributes and no href/src that fails
\* isSafeUrl, also below an unwrapped (disallowed) element.
C1_SanitizedOutputIsClean ==
    sanitized => \A j \in 1..Len(clean) : IsClean(clean[j])

----------------------------------------------------------------------------
(* SpecUndo: an UndoManager driven by any sequence of its four operations *)

\* new UndoManager(maxSize) for a positive maxSize: a number of undo states to
\* keep (the default is 100)
InitUndo ==
    /\ \E m \in 1..MaxSize : undo = UndoManager(m)
    /\ prev = undo
    /\ lastOp = Op("new", Null) /\ ret = Null
    /\ SanitizeIdle /\ SessionIdle /\ PageIdle

CallPush ==
    \E html \in Snapshots :
        /\ prev' = undo
        /\ undo' = UndoManager_push(undo, html)
        /\ lastOp' = Op("push", html) /\ ret' = Null
        /\ UNCHANGED sanVars /\ UNCHANGED sessVars /\ UNCHANGED pageVars

CallUndo ==
    /\ prev' = undo
    /\ undo' = UndoManager_undo(undo).um
    /\ ret' = UndoManager_undo(undo).ret
    /\ lastOp' = Op("undo", Null)
    /\ UNCHANGED sanVars /\ UNCHANGED sessVars /\ UNCHANGED pageVars

CallRedo ==
    /\ prev' = undo
    /\ undo' = UndoManager_redo(undo).um
    /\ ret' = UndoManager_redo(undo).ret
    /\ lastOp' = Op("redo", Null)
    /\ UNCHANGED sanVars /\ UNCHANGED sessVars /\ UNCHANGED pageVars

CallReset ==
    \E html \in Snapshots :
        /\ prev' = undo
        /\ undo' = UndoManager_reset(undo, html)
        /\ lastOp' = Op("reset", html) /\ ret' = Null
        /\ UNCHANGED sanVars /\ UNCHANGED sessVars /\ UNCHANGED pageVars

NextUndo == CallPush \/ CallUndo \/ CallRedo \/ CallReset

SpecUndo == InitUndo /\ [][NextUndo]_vars

\* The push of the last operation found its snapshot at the cursor.
PushedSame == prev.index >= 0 /\ At(prev, prev.index) = lastOp.arg

\* What a push that is not deduplicated appends to: the entries up to the cursor.
KeptByPush == Append(SubSeq(prev.stack, 1, prev.index + 1), lastOp.arg)

\* C2: a push of a snapshot other than the one at the cursor discards every
\* entry after the cursor and appends: afterwards the new snapshot is at the
\* cursor, the cursor is the last index, canRedo is false and redo() returns
\* null.
C2_PushDiscardsRedo ==
    (lastOp.name = "push" /\ ~PushedSame) =>
        /\ undo.stack \in {KeptByPush, Tail(KeptByPush)}
        /\ At(undo, undo.index) = lastOp.arg
        /\ undo.index = Len(undo.stack) - 1
        /\ ~canRedo(undo)
        /\ UndoManager_redo(undo).ret = Null

\* push A, push B, push C, undo, undo, push D: C and B are gone, redo() is null
C2_Witness ==
    /\ lastOp = Op("push", "D")
    /\ prev.stack = <<"A", "B", "C">> /\ prev.index = 0
    /\ undo.stack = <<"A", "D">> /\ undo.index = 1
    /\ UndoManager_redo(undo).ret = Null

\* C3: a push of the snapshot at the cursor changes nothing: stack, length and
\* cursor stay, also when the cursor is not at the last index.
C3_PushSameIsNoOp ==
    (lastOp.name = "push" /\ PushedSame) => undo = prev

C3_Witness ==
    /\ lastOp.name = "push" /\ PushedSame
    /\ prev.index < Len(prev.stack) - 1
    /\ undo = prev

\* C4: the stack never holds more than maxSize entries; a push that would
\* exceed it evicts exactly the oldest entry and leaves the cursor at the
\* pushed snapshot.  With maxSize = 2, push A, B, C gives [B, C] with the
\* cursor at C, undo() returns B and a further undo() returns null.
C4_StackBounded ==
    /\ Len(undo.stack) <= undo.maxSize
    /\ (lastOp.name = "push" /\ ~PushedSame /\ Len(KeptByPush) > prev.maxSize) =>
          /\ undo.stack = Tail(KeptByPush)
          /\ At(undo, undo.index) = lastOp.arg
    /\ (undo.maxSize = 2 /\ lastOp = Op("push", "C")
          /\ prev.stack = <<"A", "B">> /\ prev.index = 1) =>
          /\ undo.stack = <<"B", "C">> /\ undo.index = 1
          /\ UndoManager_undo(undo).ret = "B"
          /\ UndoManager_undo(UndoManager_undo(undo).um).ret = Null

C4_Witness ==
    /\ undo.maxSize = 2 /\ lastOp = Op("push", "C")
    /\ prev.stack = <<"A", "B">> /\ prev.index = 1
    /\ undo.stack = <<"B", "C">> /\ undo.index = 1

\* C5: undo() and redo() never change the stack's contents; undo() moves the
\* cursor back by one and returns the snapshot now at it when cursor > 0, redo()
\* moves it forward by one and returns the snapshot now at it when cursor < last
\* index; otherwise each returns null and leaves the cursor.
C5_UndoRedoMoveCursorOnly ==
    /\ lastOp.name \in {"undo", "redo"} =>
          undo.stack = prev.stack /\ undo.maxSize = prev.maxSize
    /\ lastOp.name = "undo" =>
          IF prev.index > 0
          THEN undo.index = prev.index - 1 /\ ret = At(undo, undo.index)
          ELSE undo.index = prev.index /\ ret = Null
    /\ lastOp.name = "redo" =>
          IF prev.index < Len(prev.stack) - 1
          THEN undo.index = prev.index + 1 /\ ret = At(undo, undo.index)
          ELSE undo.index = prev.index /\ ret = Null

\* an undo() that returned the snapshot before the cursor's, from index 1
C5_Witness ==
    /\ lastOp.name = "undo" /\ prev.index > 0
    /\ ret = At(prev, prev.index - 1) /\ ret # At(prev, prev.index)
    /\ UndoManager_undo(UndoManager_undo(undo).um).ret = Null

\* C16: for an UndoManager of maxSize >= 1 and any sequence of push, undo, redo
\* and reset, the cursor is a valid index into the stack, 0 <= cursor < length,
\* whenever the stack holds an entry, and it is -1 only while the stack is
\* empty.
C16_CursorIsValidIndex ==
    IF undo.stack = <<>>
    THEN undo.index = -1
    ELSE 0 <= undo.index /\ undo.index < Len(undo.stack)

\* a push that evicted the oldest entry of a full stack: the cursor is the
\* last index
C16_Witness ==
    /\ lastOp.name = "push" /\ ~PushedSame
    /\ Len(KeptByPush) > prev.maxSize
    /\ undo.index = Len(undo.stack) - 1 /\ undo.index = undo.maxSize - 1
    /\ undo.maxSize > 1

----------------------------------------------------------------------------
(* Claims about the editor session, under Spec *)

\* C6: when the code command leaves RawView, the undo history is reset to a
\* fresh baseline: a single entry, the markup copied back from the raw surface,
\* cursor 0, so that neither undo nor redo returns a snapshot from before the
\* toggle.
C6_LeavingRawViewResetsHistory ==
    (lastOp = Op("toolbar", "code") /\ codeView # Null /\ ~isCodeView) =>
        /\ undo.stack = <<contentEl>> /\ undo.index = 0
        /\ UndoManager_undo(undo).ret = Null
        /\ UndoManager_redo(undo).ret = Null

C8_PayloadIsAuthoritative ==
    \A k \in 1..Len(notified) : notified[k] = getContent

\* C9: an undo or redo command (toolbar or keyboard) whose UndoManager call
\* returns a snapshot assigns that snapshot to the editable surface and sends
\* it to the host in the same handler; when the call returns null, the
\* editable surface, the raw surface and the undo history stay as they were
\* and the host is sent nothing.
C9_UndoRedoCommand ==
    [][ (IsUndoCommand(lastOp') \/ IsRedoCommand(lastOp')) =>
          LET r == IF IsUndoCommand(lastOp') THEN UndoManager_undo(undo)
                                             ELSE UndoManager_redo(undo)
          IN IF r.ret # Null
             THEN /\ contentEl' = InnerHTML(r.ret)
                  /\ notified' = <<r.ret>>
                  /\ undo' = r.um
             ELSE /\ contentEl' = contentEl /\ codeView' = codeView
                  /\ undo' = undo
                  /\ notified' = <<>>
      ]_vars

\* Ctrl+Z that got a snapshot back: the surface holds it, the host was sent it
C9_Witness ==
    /\ lastOp = Op("keydown", "z") /\ ret # Null
    /\ ret = At(undo, undo.index)
    /\ contentEl = InnerHTML(ret) /\ notified = <<ret>>

\* C10: a blur of the editable surface sends the host the surface's markup in
\* the blur handler itself, whether or not a debounced notification is
\* pending; a blur that follows an edit sends the markup of that edit.
C10_BlurNotifiesAtOnce ==
    [][ lastOp'.name = "blur" =>
          /\ notified' = <<contentEl>>
          /\ lastOp.name = "input" => notified' = <<lastOp.arg>>
      ]_vars

\* a blur while the debounce timer of an edit is still pending
C10_Witness ==
    /\ lastOp.name = "blur" /\ timer > 0
    /\ notified = <<contentEl>>

\* What setContent(id, x) leaves getContent(id) to return: the raw surface's
\* text, x, in RawView and the serialization of the editable surface in WYSIWYG.
AfterSetContent(x, rawView) == IF rawView THEN x ELSE InnerHTML(x)

\* The state of the session that setContent and destroy may touch
Touchable == <<contentEl, codeView, isCodeView, fullscreen, timer, undo, instances>>

\* C11 as stated: for a registered instance, in either view, setContent(id, x)
\* followed immediately by getContent(id) returns x; getContent on an
\* unregistered id returns the empty string; setContent and destroy on an
\* unregistered id change nothing.
C11_RoundTripExact ==
    [][ /\ (lastOp'.name = "setContent" /\ mounted') => getContent_export' = lastOp'.arg
        /\ (lastOp.name = "setContent" /\ lastOp'.name = "getContent" /\ mounted) =>
              ret' = lastOp.arg
        /\ (lastOp'.name = "getContent" /\ ~mounted) => ret' = ""
        /\ (lastOp'.name \in {"setContent", "destroyEditor"} /\ ~mounted) =>
              UNCHANGED Touchable
      ]_vars

\* C11, amended: for a registered instance setContent(id, x) followed
\* immediately by getContent(id) returns x in RawView and, in WYSIWYG, the
\* editable surface's serialization of x, which is x when x is markup as the
\* surface serializes it; getContent on an unregistered id returns the empty
\* string; setContent and destroy on an unregistered id change nothing.
C11_RoundTrip ==
    [][ /\ (lastOp'.name = "setContent" /\ mounted') =>
              /\ getContent_export' = AfterSetContent(lastOp'.arg, isCodeView')
              /\ lastOp'.arg \in Serialized => getContent_export' = lastOp'.arg
        /\ (lastOp.name = "setContent" /\ lastOp'.name = "getContent" /\ mounted) =>
              ret' = AfterSetContent(lastOp.arg, isCodeView)
        /\ (lastOp'.name = "getContent" /\ ~mounted) => ret' = ""
        /\ (lastOp'.name \in {"setContent", "destroyEditor"} /\ ~mounted) =>
              UNCHANGED Touchable
      ]_vars

\* setContent of markup the parser repairs, in WYSIWYG: getContent returns the
\* repaired markup
C11_Witness ==
    /\ lastOp = Op("setContent", "<p>a") /\ mounted /\ ~isCodeView
    /\ getContent_export = "<p>a</p>"

\* C12: setContent(id, markup) on a registered instance leaves the undo stack
\* and cursor as they were and overwrites the editable surface, and the raw
\* surface when there is one, with the given markup.
C12_SetContentBypassesUndo ==
    [][ (lastOp'.name = "setContent" /\ mounted) =>
          /\ undo' = undo
          /\ contentEl' = InnerHTML(lastOp'.arg)
          /\ codeView' = IF codeView # Null THEN lastOp'.arg ELSE Null
      ]_vars

\* both surfaces hold markup the history's cursor does not
C12_Witness ==
    /\ lastOp.name = "setContent" /\ mounted
    /\ codeView = lastOp.arg /\ contentEl = InnerHTML(lastOp.arg)
    /\ timer = 0 /\ undo.index = Len(undo.stack) - 1
    /\ \A k \in 1..Len(undo.stack) : undo.stack[k] # contentEl

\* The commands C17 calls discrete and content-mutating
IsDiscreteCommand(op) ==
    op \in {Op("toolbar", "execCommand"), Op("formatBlock", Null), Op("paste", Null),
            Op("linkCallback", HttpsUrl), Op("tableCallback", Null),
            Op("keydown", "b"), Op("keydown", "i"), Op("keydown", "u")}

\* C17 as stated: a discrete content-mutating command (toolbar formatting
\* command, format-block change, paste, link or table insertion, Ctrl/Cmd+B/I/U)
\* pushes its resulting snapshot to the UndoManager in its own handler, before
\* any later event is handled.
C17_DiscreteCommandsPushAtOnce ==
    [][ IsDiscreteCommand(lastOp') => undo' = UndoManager_push(undo, getContent') ]_vars

\* C17, amended: a discrete content-mutating command pushes nothing in its own
\* handler: like typing it calls the debounced notifyChange, which leaves one
\* timer pending and sends the host nothing; the snapshot, the authoritative
\* markup at that moment, is pushed when the timer fires.
C17_DiscreteCommandsAreDebounced ==
    [][ /\ IsDiscreteCommand(lastOp') =>
              undo' = undo /\ timer' = 1 /\ notified' = <<>>
        /\ lastOp'.name = "timeout" =>
              undo' = UndoManager_push(undo, getContent) /\ timer' = timer - 1
      ]_vars

\* a toolbar formatting command changed the markup: the timer is pending, the
\* history does not hold the new markup yet
C17_Witness ==
    /\ lastOp = Op("toolbar", "execCommand") /\ ~isCodeView
    /\ timer = 1 /\ notified = <<>>
    /\ \A k \in 1..Len(undo.stack) : undo.stack[k] # contentEl

\* C19: a debounced notification pending when destroy(id) is called is
\* abandoned: its timer delivers no host notification and pushes no snapshot
\* after the destroy.
C19_DestroyAbandonsPending ==
    [][ (~mounted /\ lastOp'.name = "timeout") => notified' = <<>> /\ undo' = undo ]_vars

\* C22: in WYSIWYG an undo command that got a snapshot back, followed at once
\* by a redo command, leaves the editable surface with exactly the content it
\* had before the undo, also when the undo comes after an edit whose debounced
\* push has not fired yet.
C22_UndoThenRedoRestores ==
    [][ (IsUndoCommand(lastOp) /\ ret # Null /\ ~isCodeView /\ IsRedoCommand(lastOp')) =>
          contentEl' = before
      ]_vars

----------------------------------------------------------------------------
(* SpecTable: one submission of the table dialog (showTableDialog, lines 181-207) *)

\* opts as initEditor builds it (lines 238-243): the defaults, or a host's own
\* maxima
TableOptions ==
    {[maxTableRows |-> 20, maxTableCols |-> 10],
     [maxTableRows |-> 5, maxTableCols |-> 2]}

\* What the .value of a number input can read as: no number ("" is what the
\* input reads as when the text typed is not a number), or an integer
FieldValues == {"abc", "", "-5", "0", "1", "3", "10", "11", "20", "21", "999"}

\* A number of JavaScript: NaN or an integer
NaN == [nan |-> TRUE, n |-> 0]
Number(n) == [nan |-> FALSE, n |-> n]

\* parseInt(value) (lines 202-203)
parseInt(value) ==
    CASE value = "-5" -> Number(-5)
      [] value = "0" -> Number(0)
      [] value = "1" -> Number(1)
      [] value = "3" -> Number(3)
      [] value = "10" -> Number(10)
      [] value = "11" -> Number(11)
      [] value = "20" -> Number(20)
      [] value = "21" -> Number(21)
      [] value = "999" -> Number(999)
      [] OTHER -> NaN

\* x || 3: 3 when x is falsy, which NaN and 0 are
OrThree(x) == IF x.nan \/ x.n = 0 THEN 3 ELSE x.n

Max(a, b) == IF a > b THEN a ELSE b

\* Math.max(1, Math.min(max, parseInt(value) || 3)) (lines 202-203)
dimension(max, value) == Max(1, Min(max, OrThree(parseInt(value))))

InitTable ==
    /\ fields \in [rows : FieldValues, cols : FieldValues, opts : TableOptions]
    /\ resolved = <<>>
    /\ lastOp = Op("showTableDialog", Null) /\ ret = Null
    /\ instances = [id \in ElementIds |-> Unregistered] /\ DomIdle
    /\ SanitizeIdle /\ UndoIdle /\ SessionIdle

\* 'click' on the table dialog's primary button (lines 201-206): the
\* arguments of callback(rows, cols)
tablePrimaryClick ==
    /\ resolved = <<>>
    /\ resolved' = <<dimension(fields.opts.maxTableRows, fields.rows),
                     dimension(fields.opts.maxTableCols, fields.cols)>>
    /\ lastOp' = Op("tablePrimaryClick", Null)
    /\ UNCHANGED <<fields, ret, undo, prev, instances>>
    /\ UNCHANGED sanVars /\ UNCHANGED sessVars /\ UNCHANGED domVars

NextTable == tablePrimaryClick

SpecTable == InitTable /\ [][NextTable]_vars

\* What C14 says a field resolves to: the integer entered, clamped to
\* [1, max], and 3 when the field holds no number
Clamped(max, value) ==
    IF parseInt(value).nan THEN 3
    ELSE Max(1, Min(max, parseInt(value).n))

\* C14: a table dialog submission resolves each dimension to the entered
\* integer clamped to [1, configured maximum] for every numeric input (0 and
\* negative numbers give 1, values above the maximum give the maximum), and to
\* the default 3 only for a non-numeric input.
C14_TableDimensionsClamped ==
    resolved # <<>> =>
        /\ resolved[1] = Clamped(fields.opts.maxTableRows, fields.rows)
        /\ resolved[2] = Clamped(fields.opts.maxTableCols, fields.cols)

----------------------------------------------------------------------------
(* SpecPage: the page's editors as initEditor and destroyEditor register and  *)
(* unregister them, the listeners on document, and the dialogs                *)

\* An id no element of the page has
AbsentId == "absent"

\* The names of the initEditor closures that can be alive at once
Handles == 1..MaxClosures

\* The listeners one initEditor call puts on document (lines 282, 491):
\* onSelectionChange and onKeydownGlobal of closure inst, made for element id
listenersOf(inst, id) ==
    {[type |-> "selectionchange", inst |-> inst, id |-> id],
     [type |-> "keydown", inst |-> inst, id |-> id]}

\* A closure is alive while its elements are in the page or a listener of it
\* is on document
UsedHandles ==
    {closures[k].inst : k \in 1..Len(closures)} \cup {l.inst : l \in listeners}

\* The closures whose toolbar is that of element id
ClosuresOf(id) == {k \in 1..Len(closures) : closures[k].id = id}

\* createOverlay and the appendChild that follows it (lines 107-137, 160, 197):
\* an overlay owned by editorId, its keydown listener on document
createOverlay(editorId, kind) ==
    [owner |-> editorId, kind |-> kind, keyListener |-> TRUE, called |-> 0,
     observing |-> TRUE]

\* A faulty overlay.remove(): the overlay stays in the document.
overlay_removeNot(ovs, o) == ovs

\* overlay.remove() of one overlay o
overlay_remove(ovs, o) == ovs (-) SetToBag({o})

\* The sum of the counts a bag gives to the elements of S
RECURSIVE CountOf(_, _)
CountOf(bag, S) ==
    IF S = {} THEN 0
    ELSE LET x == CHOOSE y \in S : TRUE IN bag[x] + CountOf(bag, S \ {x})

\* The bag of f[o], for the o of a bag
BagImage(f, bag) ==
    [e \in {f[o] : o \in BagToSet(bag)} |->
        CountOf(bag, {o \in BagToSet(bag) : f[o] = e})]

\* The overlays of a bag that still hold something on the page: a keydown
\* listener on document or a connected MutationObserver
Held(bag) ==
    [o \in {x \in BagToSet(bag) : x.keyListener \/ x.observing} |-> bag[o]]

\* onKeydown of an overlay on Escape (lines 118-124): closeOverlay, and the
\* listener takes itself off document
onKeydown(o) == [o EXCEPT !.keyListener = FALSE]

\* A faulty observer callback: it disconnects, and leaves the listener.
observerKeepsListener(o) == [o EXCEPT !.observing = FALSE]

\* The MutationObserver callback of an overlay that is no longer in
\* document.body (lines 128-133): the keydown listener leaves document and
\* the observer disconnects
observerCallback(o) == [o EXCEPT !.keyListener = FALSE, !.observing = FALSE]

\* No observer callback is due.  A callback is a microtask, queued by the
\* removal of the overlay (observe on document.body with childList and
\* subtree, line 134); it runs when the handler that removed the overlay
\* returns, before the next event is handled.
Quiet == \A d \in BagToSet(detached) : ~d.observing

\* The overlays of ovs that editor id does not own
NotOwnedBy(ovs, id) == [o \in {x \in BagToSet(ovs) : x.owner # id} |-> ovs[o]]

\* The page before any initEditor
InitPage ==
    /\ instances = [id \in ElementIds |-> Unregistered]
    /\ DomIdle /\ TableIdle
    /\ lastOp = Op("load", Null) /\ ret = Null
    /\ SanitizeIdle /\ UndoIdle /\ SessionIdle

\* The variables a step of SpecPage never changes
notPage == <<ret, undo, prev, sanVars, sessVars, tableVars>>

\* initEditor(id, dotNetRef, options) (lines 234-503): nothing for an id
\* without element; otherwise a new closure, its two listeners on document,
\* and instances.set, whatever instances held for id
initEditor ==
    \E id \in ElementIds \cup {AbsentId} :
        /\ Quiet
        /\ lastOp' = Op("initEditor", id)
        /\ invoked' = <<>>
        /\ IF id = AbsentId
           THEN UNCHANGED <<instances, closures, listeners>>
           ELSE /\ Handles \ UsedHandles # {}
                /\ LET free == Handles \ UsedHandles
                       inst == CHOOSE h \in free : \A g \in free : h <= g
                   IN /\ closures' = Append(closures,
                                            [inst |-> inst, id |-> id, isCodeView |-> FALSE])
                      /\ listeners' = listeners \cup listenersOf(inst, id)
                      /\ instances' = [instances EXCEPT ![id] = inst]
        /\ UNCHANGED <<classes, overlays, detached>>
        /\ UNCHANGED notPage

\* A faulty destroyEditor: the dialogs of every editor are removed.
destroyEditorAllDialogs(id) ==
    IF instances[id] = Unregistered
    THEN UNCHANGED <<instances, closures, listeners, classes, overlays>>
    ELSE /\ listeners' = listeners \ listenersOf(instances[id], id)
         /\ overlays' = EmptyBag
         /\ classes' = [classes EXCEPT ![id] = @ \ {"rte-fullscreen", "code-active"}]
         /\ instances' = [instances EXCEPT ![id] = Unregistered]
         /\ closures' = LET Other(c) == c.id # id IN SelectSeq(closures, Other)

\* destroyEditor(id) (lines 518-532): the listeners the registered instance
\* holds leave document, the overlays id owns leave the document, the
\* container loses both classes, the entry leaves the Map.  The elements leave
\* the page with the teardown, and the closures made for them with them.
destroyEditorOn(id) ==
    IF instances[id] = Unregistered
    THEN UNCHANGED <<instances, closures, listeners, classes, overlays>>
    ELSE /\ listeners' = listeners \ listenersOf(instances[id], id)
         /\ overlays' = NotOwnedBy(overlays, id)
         /\ classes' = [classes EXCEPT ![id] = @ \ {"rte-fullscreen", "code-active"}]
         /\ instances' = [instances EXCEPT ![id] = Unregistered]
         /\ closures' = LET Other(c) == c.id # id IN SelectSeq(closures, Other)

\* The host calls destroyEditor(id)
destroyEditorCall ==
    \E id \in ElementIds :
        /\ Quiet
        /\ destroyEditorOn(id)
        /\ detached' = detached (+) (overlays (-) overlays')
        /\ lastOp' = Op("destroyEditor", id)
        /\ invoked' = <<>>
        /\ UNCHANGED notPage

\* classList.toggle(name) done n times
toggled(list, name, n) ==
    IF n % 2 = 0 THEN list
    ELSE IF name \in list THEN list \ {name} ELSE list \cup {name}

\* 'click' on the toolbar of a mounted editor (lines 359-401), for the
\* commands that reach the page: every closure made for the element has its
\* handler on the toolbar, and each runs.  link and table: handleLink,
\* handleTable open a dialog (lines 415-453); code: toggleCodeView (lines
\* 456-472), the raw surface present; fullscreen: toggleFullscreen (479-483).
toolbarClickOn ==
    \E id \in ElementIds, cmd \in {"link", "table", "code", "fullscreen"} :
        /\ Quiet
        /\ instances[id] # Unregistered
        /\ lastOp' = Op("toolbar", cmd)
        /\ invoked' = <<>>
        /\ LET ks == ClosuresOf(id)
               n == Cardinality(ks)
               last == CHOOSE k \in ks : \A j \in ks : j <= k
           IN CASE cmd \in {"link", "table"} ->
                     /\ BagCardinality(overlays) + n <= MaxOverlays
                     /\ overlays' = overlays (+) [o \in {createOverlay(id, cmd)} |-> n]
                     /\ UNCHANGED <<closures, classes>>
                [] cmd = "code" ->
                     /\ closures' = [k \in 1..Len(closures) |->
                                        IF k \in ks
                                        THEN [closures[k] EXCEPT !.isCodeView = ~@]
                                        ELSE closures[k]]
                     /\ classes' = [classes EXCEPT ![id] =
                                       IF closures'[last].isCodeView
                                       THEN @ \cup {"code-active"}
                                       ELSE @ \ {"code-active"}]
                     /\ UNCHANGED overlays
                [] OTHER ->
                     /\ classes' = [classes EXCEPT ![id] = toggled(@, "rte-fullscreen", n)]
                     /\ UNCHANGED <<closures, overlays>>
        /\ UNCHANGED <<instances, listeners, detached>>
        /\ UNCHANGED notPage

\* 'keydown' on document with key Escape: every keydown listener on document
\* runs.  onKeydownGlobal (lines 486-490) of a closure whose container is in
\* the page takes the container out of fullscreen; onKeydown of an overlay
\* (lines 118-124) removes the overlay and itself.
escapeKey ==
    /\ Quiet
    /\ classes' = [id \in ElementIds |->
                     IF \E l \in listeners :
                           /\ l.type = "keydown" /\ l.id = id
                           /\ \E k \in ClosuresOf(id) : closures[k].inst = l.inst
                     THEN classes[id] \ {"rte-fullscreen"}
                     ELSE classes[id]]
    /\ overlays' = [o \in {x \in BagToSet(overlays) : ~x.keyListener} |-> overlays[o]]
    /\ LET heard == detached (+) (overlays (-) overlays')
       IN detached' = Held(BagImage([o \in BagToSet(heard) |-> onKeydown(o)], heard))
    /\ lastOp' = Op("Escape", Null)
    /\ invoked' = <<>>
    /\ UNCHANGED <<instances, closures, listeners>>
    /\ UNCHANGED notPage


\* 'click' on a dialog's Cancel button (lines 165, 200)
cancelClick ==
    \E o \in BagToSet(overlays) :
        /\ Quiet
        /\ overlays' = overlay_remove(overlays, o)
        /\ detached' = detached (+) (overlays (-) overlays')
        /\ lastOp' = Op("cancel", Null)
        /\ invoked' = <<>>
        /\ UNCHANGED <<instances, closures, listeners, classes>>
        /\ UNCHANGED notPage

\* 'mousedown' on the overlay itself, the backdrop (lines 114-116)
backdropMousedown ==
    \E o \in BagToSet(overlays) :
        /\ Quiet
        /\ overlays' = overlay_remove(overlays, o)
        /\ detached' = detached (+) (overlays (-) overlays')
        /\ lastOp' = Op("backdrop", Null)
        /\ invoked' = <<>>
        /\ UNCHANGED <<instances, closures, listeners, classes>>
        /\ UNCHANGED notPage

\* What the URL field of the link dialog can hold
UrlValues == {<<>>, <<" ">>, PaddedUrl}

\* 'click' on the link dialog's primary button, or Enter in its URL field
\* (lines 166-179): the overlay is removed, then the callback is called if
\* the trimmed URL is not empty
linkPrimaryClick ==
    \E o \in BagToSet(overlays), value \in UrlValues :
        /\ Quiet
        /\ o.kind = "link"
        /\ LET url == trim(value)
               called == [o EXCEPT !.called = IF url # <<>> THEN @ + 1 ELSE @]
               marked == (overlays (-) SetToBag({o})) (+) SetToBag({called})
           IN /\ overlays' = overlay_remove(marked, called)
              /\ detached' = detached (+) (marked (-) overlays')
              /\ invoked' = IF url # <<>> THEN <<[owner |-> o.owner, kind |-> o.kind]>>
                                         ELSE <<>>
              /\ lastOp' = Op("linkPrimaryClick", value)
        /\ UNCHANGED <<instances, closures, listeners, classes>>
        /\ UNCHANGED notPage

\* 'click' on the table dialog's primary button (lines 201-206): the overlay
\* is removed, then the callback is called; SpecTable follows its arguments
tablePrimaryClickOn ==
    \E o \in BagToSet(overlays) :
        /\ Quiet
        /\ o.kind = "table"
        /\ LET called == [o EXCEPT !.called = @ + 1]
               marked == (overlays (-) SetToBag({o})) (+) SetToBag({called})
           IN /\ overlays' = overlay_remove(marked, called)
              /\ detached' = detached (+) (marked (-) overlays')
        /\ invoked' = <<[owner |-> o.owner, kind |-> o.kind]>>
        /\ lastOp' = Op("tablePrimaryClick", Null)
        /\ UNCHANGED <<instances, closures, listeners, classes>>
        /\ UNCHANGED notPage

\* The observers of the overlays that left the document are notified (lines
\* 128-133), each of its own overlay's absence
mutationObserved ==
    /\ ~Quiet
    /\ detached' = Held(BagImage([o \in BagToSet(detached) |-> observerCallback(o)],
                                 detached))
    /\ lastOp' = Op("MutationObserver", lastOp.name)
    /\ invoked' = <<>>
    /\ UNCHANGED <<instances, closures, listeners, classes, overlays>>
    /\ UNCHANGED notPage

NextPage ==
    \/ initEditor \/ destroyEditorCall \/ toolbarClickOn \/ escapeKey
    \/ cancelClick \/ backdropMousedown \/ linkPrimaryClick \/ tablePrimaryClickOn
    \/ mutationObserved

SpecPage == InitPage /\ [][NextPage]_vars

\* The ways a dialog is dismissed
IsDismissal(op) == op.name \in {"cancel", "backdrop", "Escape", "destroyEditor"}

\* C13: after destroyEditor(id) on a registered instance the selectionchange
\* and keydown listeners of that instance are off document, no overlay owned
\* by id is in the document while those of other editors all remain, the
\* container has neither its fullscreen nor its code-view class, and the Map
\* has no entry for id (so that getContent(id) returns the empty string).
C13_DestroyCleansUp ==
    [][ \A id \in ElementIds :
          (lastOp' = Op("destroyEditor", id) /\ instances[id] # Unregistered) =>
              /\ listeners' \cap listenersOf(instances[id], id) = {}
              /\ \A o \in BagToSet(overlays') : o.owner # id
              /\ overlays' = NotOwnedBy(overlays, id)
              /\ classes'[id] \cap {"rte-fullscreen", "code-active"} = {}
              /\ instances'[id] = Unregistered
      ]_vars

\* editor1 destroyed while editor2 had a dialog open: the dialog is there,
\* editor2's listeners are the only ones on document
C13_Witness ==
    /\ lastOp = Op("destroyEditor", "editor1")
    /\ instances["editor1"] = Unregistered /\ instances["editor2"] # Unregistered
    /\ listeners = listenersOf(instances["editor2"], "editor2")
    /\ overlays = SetToBag({createOverlay("editor2", "link")})
    /\ classes["editor1"] = {} /\ classes["editor2"] = {"rte-fullscreen", "code-active"}

\* C15: a dialog invokes its callback at most once: a dialog in the document
\* has not invoked it yet, and a handler that invokes it is the dialog's
\* submission, invokes it once and takes the dialog out of the document, where
\* no event reaches it.  No dismissal (Cancel, backdrop, Escape, destroy of the
\* owner) invokes a callback, and no link submission whose URL is empty.
C15_CallbackAtMostOnce ==
    [][ /\ \A o \in BagToSet(overlays') : o.called = 0
        /\ Len(invoked') <= 1
        /\ IsDismissal(lastOp') => invoked' = <<>>
        /\ (lastOp'.name = "linkPrimaryClick" /\ trim(lastOp'.arg) = <<>>) =>
              invoked' = <<>>
        /\ invoked' # <<>> =>
              /\ lastOp'.name \in {"linkPrimaryClick", "tablePrimaryClick"}
              /\ BagCardinality(overlays') = BagCardinality(overlays) - 1
              /\ \E o \in BagToSet(overlays) :
                    /\ o.owner = invoked'[1].owner
                    /\ o.kind = invoked'[1].kind
                    /\ o.called = 0
      ]_vars

\* a link dialog submitted with a URL: its callback was called, the dialog is
\* gone
C15_Witness ==
    /\ lastOp = Op("linkPrimaryClick", PaddedUrl)
    /\ invoked = <<[owner |-> "editor1", kind |-> "link"]>>
    /\ overlays = EmptyBag

\* C18: at most one session per element id is live: an initEditor of an id
\* that has an instance leaves no listener of the earlier instance on
\* document, and once destroyEditor(id) has run no listener made by any
\* initEditor(id) is on document.
C18_OneSessionPerId ==
    \A id \in ElementIds :
        /\ Cardinality({l.inst : l \in {m \in listeners : m.id = id}}) <= 1
        /\ instances[id] = Unregistered => \A l \in listeners : l.id # id

\* The number of overlays editor id owns
OwnedBy(ovs, id) == BagCardinality(ovs) - BagCardinality(NotOwnedBy(ovs, id))

\* C20: while editors A and B each have a dialog open, a dismissal of A's
\* dialog (Cancel, backdrop, Escape, destroy of A) leaves B's dialogs in the
\* document.
C20_NoCrossCancel ==
    [][ \A a \in ElementIds : \A b \in ElementIds \ {a} :
          ( /\ OwnedBy(overlays, a) > 0 /\ OwnedBy(overlays, b) > 0
            /\ IsDismissal(lastOp')
            /\ OwnedBy(overlays', a) < OwnedBy(overlays, a) )
          => OwnedBy(overlays', b) = OwnedBy(overlays, b)
      ]_vars

\* A dialog left the document otherwise than by the Escape key, and its
\* observer has been notified of it
ObservedAfter(op) ==
    /\ op.name = "MutationObserver"
    /\ op.arg \in {"cancel", "backdrop", "destroyEditor", "linkPrimaryClick",
                   "tablePrimaryClick"}

\* C21: whichever way a dialog leaves the document (Escape, backdrop, Cancel,
\* submit, destroyEditor), once its removal has been observed its keydown
\* listener is off document: a listener of an absent dialog is registered only
\* while the observer's callback for the removal is still due.
C21_NoListenerOutlivesDialog ==
    \A d \in BagToSet(detached) : d.keyListener => d.observing

C21_Witness ==
    /\ ObservedAfter(lastOp)
    /\ \A d \in BagToSet(detached) : ~d.keyListener


====
